---- MODULE Spec2Model ----
(***************************************************************************)
(* A model of example/mnist/mnist_qat.py: the sparse MNIST classifier      *)
(* (NetPTQ), its training and evaluation loops, and the post-training      *)
(* quantization run (prepare -> calibrate -> convert) performed by main(). *)
(*                                                                         *)
(* Tensors are abstracted: a batch is its size n and the intensity px of   *)
(* its active sites; the learnable parameters (convolution weights and the *)
(* normalisation scale/shift) are one integer; a forward output is the     *)
(* tuple of everything the real output is computed from.                   *)
(***************************************************************************)
EXTENDS Integers, Sequences, FiniteSets, TLC

(***************************************************************************)
(* Bounds of the model.                                                    *)
(***************************************************************************)
MaxEpochs == 2
MaxTrainBatches == 1
MaxTestBatches == 2
MaxN == 2

(* Pixel intensities a batch may hold (ToTensor without Normalize keeps    *)
(* the background at exactly 0, so active sites have intensity >= 1).      *)
Pixels == {1, 2}

(* A batch of n images: its active sites have intensity px. *)
Batch(n) == [n : {n}, px : Pixels]

NoBatch == [n |-> 0, px |-> 0]

(***************************************************************************)
(* Network architecture.                                                   *)
(***************************************************************************)
InputExtent == 28

Fc1InFeatures == 14 * 14 * 64

(* Variant: padding taken as half the kernel size. *)
padding_half(kernel_size) ==
    kernel_size \div 2

padding(kernel_size) ==
    (kernel_size - 1) \div 2

SubMConvBNReLU(in_planes, out_planes, kernel_size, stride, groups) ==
    [mode |-> "subm", in_planes |-> in_planes, out_planes |-> out_planes,
     kernel_size |-> kernel_size, stride |-> stride,
     padding |-> padding(kernel_size), groups |-> groups, bn |-> TRUE]

SparseConvBNReLU(in_planes, out_planes, kernel_size, stride, groups) ==
    [mode |-> "sparse", in_planes |-> in_planes, out_planes |-> out_planes,
     kernel_size |-> kernel_size, stride |-> stride,
     padding |-> padding(kernel_size), groups |-> groups, bn |-> TRUE]

SparseConv2d(in_planes, out_planes, kernel_size, stride) ==
    [mode |-> "sparse", in_planes |-> in_planes, out_planes |-> out_planes,
     kernel_size |-> kernel_size, stride |-> stride,
     padding |-> 0, groups |-> 1, bn |-> FALSE]

(* Net.net and NetV2.net hold the same three stages. *)
Net_net ==
    << SubMConvBNReLU(1, 32, 3, 1, 1),
       SubMConvBNReLU(32, 64, 3, 1, 1),
       SparseConvBNReLU(64, 64, 2, 2, 1) >>

(* Variant: the terminal classifier convolution built with kernel 2,       *)
(* stride 2.                                                               *)
NetPTQ_net_k2 ==
    << SubMConvBNReLU(1, 32, 3, 1, 1),
       SubMConvBNReLU(32, 64, 3, 1, 1),
       SparseConvBNReLU(64, 64, 2, 2, 1),
       SparseConvBNReLU(64, 64, 2, 2, 1),
       SparseConvBNReLU(64, 64, 3, 2, 1),
       SparseConv2d(64, 10, 2, 2) >>

NetPTQ_net ==
    << SubMConvBNReLU(1, 32, 3, 1, 1),
       SubMConvBNReLU(32, 64, 3, 1, 1),
       SparseConvBNReLU(64, 64, 2, 2, 1),
       SparseConvBNReLU(64, 64, 2, 2, 1),
       SparseConvBNReLU(64, 64, 3, 2, 1),
       SparseConv2d(64, 10, 4, 4) >>

(* Spatial extent after one stage: a submanifold stage keeps the input     *)
(* grid, a SparseConv2d stage shrinks it by kernel, stride and padding.    *)
ConvOutputSize(H, stage) ==
    IF stage.mode = "subm"
    THEN H
    ELSE ((H + 2 * stage.padding - stage.kernel_size) \div stage.stride) + 1

RECURSIVE Extents(_, _)
(* The extents along a stage list: the input's, then each stage's output.  *)
Extents(stages, H) ==
    IF stages = << >>
    THEN << H >>
    ELSE << H >> \o Extents(Tail(stages), ConvOutputSize(H, Head(stages)))

Last(s) == s[Len(s)]

(* ToDense followed by torch.flatten(x, 1): [N, C, H', W'] -> [N, C*H'*W'] *)
FlattenedShape(stages, H, N) ==
    LET e == Last(Extents(stages, H))
        c == Last(stages).out_planes
    IN  << N, c * e * e >>

(***************************************************************************)
(* Program state.                                                          *)
(***************************************************************************)
VARIABLES
    args,        \* parsed arguments and use_cuda (args.sparse is always True)
    loader_len,  \* batches per pass of train_loader and of test_loader
    pc,          \* the statement about to run
    ret,         \* the call of test() that is running
    epoch,       \* main's loop variable
    batch_idx,   \* batches consumed by the running loop
    data,        \* the batch being processed
    modules,     \* model, prepared_model and converted_model
    grad,        \* the parameters' .grad
    scaler,      \* the GradScaler of the running train() call
    lr_steps,    \* scheduler.step() calls so far (lr = args.lr * gamma^lr_steps)
    output,      \* what the last forward call returned
    loss,        \* the last batch loss
    test_acc,    \* test()'s accumulators test_loss and correct
    report,      \* what test() printed, until main() moves on
    hist,        \* history: main's calls and returns, in order
    steps,       \* history: the steps of the running training batch
    calib_data,  \* history: the intensities the calibration loader yielded
    replay,      \* repeated evaluation: the batches the first test() run saw
    first        \* repeated evaluation: what the first test() run left behind

vars == << args, loader_len, pc, ret, epoch, batch_idx, data, modules, grad,
           scaler, lr_steps, output, loss, test_acc, report, hist, steps,
           calib_data, replay, first >>

InitScaleExp == 16

QMax == 255

NoOutput == [kind |-> "none"]

NoScaler == [enabled |-> FALSE, scale_exp |-> 0, found_inf |-> FALSE]

NoGrad == [set |-> FALSE, val |-> 0, inf |-> FALSE]

NoObserver == [seen |-> FALSE, min_val |-> 0, max_val |-> 0]

NoQParams == [scale_num |-> 0, scale_den |-> 0, zero_point |-> 0]

NoAcc == [test_loss |-> 0, correct |-> 0]

Min(a, b) == IF a <= b THEN a ELSE b

Max(a, b) == IF a >= b THEN a ELSE b

RECURSIVE Sum(_)
Sum(s) == IF s = << >> THEN 0 ELSE Head(s) + Sum(Tail(s))

(* A module: its mode, its parameters, its BatchNorm buffers (running: the *)
(* batch statistics absorbed so far, oldest first, which determine         *)
(* running_mean, running_var and num_batches_tracked), its observers (on   *)
(* a prepared model) and its quantization parameters (on a converted one). *)
NoModel ==
    [kind |-> "none", training |-> FALSE, weight |-> 0, running |-> << >>,
     obs |-> NoObserver, q |-> NoQParams]

(* NetPTQ() as constructed: training mode, fresh BatchNorm buffers. *)
NetPTQ ==
    [NoModel EXCEPT !.kind = "float", !.training = TRUE]

(***************************************************************************)
(* Forward passes.                                                         *)
(***************************************************************************)

(* Variant: normalisation buffers that never track (momentum 0). *)
BatchNormForward_frozen(m, x) ==
    m

(* nn.BatchNorm1d(out_planes, momentum=0.1) inside a forward pass: in      *)
(* training mode the buffers absorb the batch statistic                    *)
(* (running' = 0.9 * running + 0.1 * statistic, num_batches_tracked + 1),  *)
(* in evaluation mode they are only read.                                  *)
BatchNormForward(m, x) ==
    IF m.training
    THEN [m EXCEPT !.running = Append(m.running, x.px)]
    ELSE m

(* An observer inserted by prepare_fx sees the tensor flowing past it and  *)
(* widens its running min/max.                                             *)
ObserverForward(obs, x) ==
    IF obs.seen
    THEN [seen |-> TRUE, min_val |-> Min(obs.min_val, x.px),
          max_val |-> Max(obs.max_val, x.px)]
    ELSE [seen |-> TRUE, min_val |-> x.px, max_val |-> x.px]

(* A dense batch as the loader yields it: [n, 1, 28, 28]. *)
dense(batch) ==
    [kind |-> "dense", px |-> batch.px, batch_size |-> batch.n]

(* Variant: the caller hands the dense batch over unconverted. *)
from_dense_skipped(batch) ==
    dense(batch)

(* SparseConvTensor.from_dense on data.reshape(-1, 28, 28, 1): the triple  *)
(* (features, indices, batch_size) handed to the network.                  *)
from_dense(batch) ==
    [kind |-> "triple", px |-> batch.px, batch_size |-> batch.n]

(* model(...): the value NetPTQ.forward(features, indices, batch_size)     *)
(* returns.  A single dense tensor leaves indices and batch_size unbound,  *)
(* which Python rejects.  Normalisation uses the batch statistic in        *)
(* training mode and the running buffers in evaluation mode; a converted   *)
(* model quantizes with q.                                                 *)
NetPTQ_forward(m, x) ==
    IF x.kind # "triple"
    THEN [kind |-> "TypeError"]
    ELSE [kind |-> "log_probs",
          shape |-> FlattenedShape(NetPTQ_net, InputExtent, x.batch_size),
          extents |-> Extents(NetPTQ_net, InputExtent),
          weight |-> m.weight,
          norm |-> IF m.training THEN << x.px >> ELSE m.running,
          q |-> m.q,
          px |-> x.px]

(* model(...): what the call leaves behind in the module. *)
ForwardState(m, x) ==
    IF x.kind # "triple"
    THEN m
    ELSE [BatchNormForward(m, x) EXCEPT
            !.obs = IF m.kind = "prepared" THEN ObserverForward(m.obs, x)
                    ELSE m.obs]

(* F.nll_loss(output, target): a fixed function of the output, the targets *)
(* being fixed per batch.                                                  *)
nll_loss(out) ==
    out.px + out.weight + Sum(out.norm) + out.q.scale_num

(* pred.eq(target.view_as(pred)).sum(): the samples classified correctly,  *)
(* again a fixed function of the output.                                   *)
correct_count(out) ==
    IF nll_loss(out) % 2 = 0 THEN out.shape[1] ELSE 0

(***************************************************************************)
(* Quantization.                                                           *)
(***************************************************************************)

(* qfx.prepare_fx(model, ...): fuse conv-bn-relu and attach fresh          *)
(* observers; the parameters and buffers are those of the trained model.   *)
prepare_fx(m) ==
    [m EXCEPT !.kind = "prepared", !.obs = NoObserver]

(* The observer's calculate_qparams for an 8-bit affine activation: the    *)
(* range is widened to contain 0 and split in QMax steps; an observer that *)
(* never ran returns the default scale 1.0 and zero point 0.               *)
calculate_qparams(obs) ==
    IF obs.seen
    THEN [scale_num |-> Max(obs.max_val, 0) - Min(obs.min_val, 0),
          scale_den |-> QMax, zero_point |-> 0]
    ELSE [scale_num |-> 1, scale_den |-> 1, zero_point |-> 0]

(* qfx.convert_to_reference_fx(prepared_model, ...): replace intrinsic     *)
(* blocks with quantized modules, the observers giving scale/zero_point.   *)
convert_to_reference_fx(pm) ==
    [pm EXCEPT !.kind = "converted", !.obs = NoObserver,
               !.q = calculate_qparams(pm.obs)]

(***************************************************************************)
(* Control flow.                                                           *)
(***************************************************************************)

(* Variant: optimizer.step() called directly, overflow or not. *)
TrainStepNext_NoSkip(step, fp16, skip) ==
    CASE step = "zero_grad" -> "forward"
      [] step = "forward"   -> "loss"
      [] step = "loss"      -> IF fp16 THEN "scale" ELSE "backward"
      [] step = "scale"     -> "backward"
      [] step = "backward"  -> IF fp16 THEN "unscale" ELSE "opt_step"
      [] step = "unscale"   -> "opt_step"
      [] step = "opt_step"  -> IF fp16 THEN "update" ELSE "train_for"
      [] step = "update"    -> "train_for"

(* train(): the step that follows `step` within one batch. *)
TrainStepNext(step, fp16, skip) ==
    CASE step = "zero_grad" -> "forward"
      [] step = "forward"   -> "loss"
      [] step = "loss"      -> IF fp16 THEN "scale" ELSE "backward"
      [] step = "scale"     -> "backward"
      [] step = "backward"  -> IF fp16 THEN "unscale" ELSE "opt_step"
      [] step = "unscale"   -> IF skip THEN "update" ELSE "opt_step"
      [] step = "opt_step"  -> IF fp16 THEN "update" ELSE "train_for"
      [] step = "update"    -> "train_for"

(* Variant: convert called before calibrate. *)
MainNext_ConvertFirst(stmt) ==
    CASE stmt = "train"        -> "test_epoch"
      [] stmt = "test_epoch"   -> "sched"
      [] stmt = "sched"        -> "main_for"
      [] stmt = "main_eval"    -> "prepare"
      [] stmt = "prepare"      -> "convert"
      [] stmt = "convert"      -> "calibrate"
      [] stmt = "calibrate"    -> "test_final"
      [] stmt = "test_final"   -> "breakpoint"

(* main(): the statement that follows `stmt`. *)
MainNext(stmt) ==
    CASE stmt = "train"        -> "test_epoch"
      [] stmt = "test_epoch"   -> "sched"
      [] stmt = "sched"        -> "main_for"
      [] stmt = "main_eval"    -> "prepare"
      [] stmt = "prepare"      -> "calibrate"
      [] stmt = "calibrate"    -> "convert"
      [] stmt = "convert"      -> "test_final"
      [] stmt = "test_final"   -> "breakpoint"

(* Variant: the final test() handed prepared_model. *)
TestTarget_prepared(call) ==
    IF call = "test_final" THEN "prepared_model" ELSE "model"

(* The model main() hands to a call of test(). *)
TestTarget(call) ==
    IF call = "test_final" THEN "converted_model" ELSE "model"

(* Variant: test() without model.eval(). *)
test_eval_missing(m) ==
    m

(* model.eval() at the top of test() *)
test_eval(m) ==
    [m EXCEPT !.training = FALSE]

(* Variant: calibrate() without model.eval(). *)
calibrate_eval_missing(m) ==
    m

(* model.eval() at the top of calibrate() *)
calibrate_eval(m) ==
    [m EXCEPT !.training = FALSE]

(***************************************************************************)
(* main(), train(), test() and calibrate().                                *)
(***************************************************************************)

Init ==
    /\ args \in [epochs : 0..MaxEpochs, fp16 : BOOLEAN, use_cuda : BOOLEAN,
                  batch_size : 1..MaxN, test_batch_size : 1..MaxN]
    /\ loader_len \in [train : 1..MaxTrainBatches, test : 1..MaxTestBatches]
    /\ pc = "main_for"
    /\ ret = "none"
    /\ epoch = 0
    /\ batch_idx = 0
    /\ data = NoBatch
    /\ modules = [model |-> NetPTQ, prepared_model |-> NoModel,
                  converted_model |-> NoModel]
    /\ grad = NoGrad
    /\ scaler = NoScaler
    /\ lr_steps = 0
    /\ output = NoOutput
    /\ loss = 0
    /\ test_acc = NoAcc
    /\ report = << >>
    /\ hist = << >>
    /\ steps = << >>
    /\ calib_data = {}
    /\ replay = << >>
    /\ first = << >>

(* for epoch in range(1, args.epochs + 1)                                  *)
MainFor ==
    /\ pc = "main_for"
    /\ IF epoch < args.epochs
       THEN /\ epoch' = epoch + 1
            /\ pc' = "train"
       ELSE /\ epoch' = epoch
            /\ pc' = "main_eval"
    /\ UNCHANGED << args, loader_len, ret, batch_idx, data, modules, grad,
                    scaler, lr_steps, output, loss, test_acc, report, hist,
                    steps, calib_data, replay, first >>

(* train(): model.train(), a fresh GradScaler (disabled without CUDA).     *)
Train ==
    /\ pc = "train"
    /\ modules' = [modules EXCEPT !.model.training = TRUE]
    /\ scaler' = [enabled |-> args.use_cuda, scale_exp |-> InitScaleExp,
                  found_inf |-> FALSE]
    /\ batch_idx' = 0
    /\ hist' = Append(hist, "train")
    /\ pc' = "train_for"
    /\ UNCHANGED << args, loader_len, ret, epoch, data, grad, lr_steps,
                    output, loss, test_acc, report, steps, calib_data,
                    replay, first >>

(* for batch_idx, (data, target) in enumerate(train_loader); train()       *)
(* returns, dropping its locals, when the loader is exhausted.             *)
TrainFor ==
    /\ pc = "train_for"
    /\ IF batch_idx < loader_len.train
       THEN /\ data' \in Batch(args.batch_size)
            /\ batch_idx' = batch_idx + 1
            /\ pc' = "zero_grad"
            /\ UNCHANGED << output, loss, scaler, hist >>
       ELSE /\ data' = NoBatch
            /\ output' = NoOutput
            /\ loss' = 0
            /\ scaler' = NoScaler
            /\ batch_idx' = batch_idx
            /\ pc' = MainNext("train")
            /\ hist' = Append(hist, "train_ret")
    /\ steps' = << >>
    /\ UNCHANGED << args, loader_len, ret, epoch, modules, grad, lr_steps,
                    test_acc, report, calib_data, replay, first >>

(* optimizer.zero_grad()                                                   *)
ZeroGrad ==
    /\ pc = "zero_grad"
    /\ grad' = NoGrad
    /\ steps' = Append(steps, "zero_gradients")
    /\ pc' = TrainStepNext("zero_grad", args.fp16, FALSE)
    /\ UNCHANGED << args, loader_len, ret, epoch, batch_idx, data, modules,
                    scaler, lr_steps, output, loss, test_acc, report, hist,
                    calib_data, replay, first >>

(* data_sp = from_dense(...); output = model(data_sp.features,             *)
(* data_sp.indices, data_sp.batch_size)                                    *)
Forward ==
    /\ pc = "forward"
    /\ output' = NetPTQ_forward(modules.model, from_dense(data))
    /\ modules' = [modules EXCEPT !.model = ForwardState(@, from_dense(data))]
    /\ steps' = Append(steps, "forward")
    /\ pc' = TrainStepNext("forward", args.fp16, FALSE)
    /\ UNCHANGED << args, loader_len, ret, epoch, batch_idx, data, grad,
                    scaler, lr_steps, loss, test_acc, report, hist,
                    calib_data, replay, first >>

(* loss = F.nll_loss(output, target)                                       *)
Loss ==
    /\ pc = "loss"
    /\ loss' = nll_loss(output)
    /\ steps' = Append(steps, "compute_loss")
    /\ pc' = TrainStepNext("loss", args.fp16, FALSE)
    /\ UNCHANGED << args, loader_len, ret, epoch, batch_idx, data, modules,
                    grad, scaler, lr_steps, output, test_acc, report, hist,
                    calib_data, replay, first >>

(* scaler.scale(loss)                                                      *)
Scale ==
    /\ pc = "scale"
    /\ steps' = Append(steps, "scale_loss")
    /\ pc' = TrainStepNext("scale", args.fp16, FALSE)
    /\ UNCHANGED << args, loader_len, ret, epoch, batch_idx, data, modules,
                    grad, scaler, lr_steps, output, loss, test_acc, report,
                    hist, calib_data, replay, first >>

(* .backward(): fills the gradients (abstracted to the batch's px); under  *)
(* an enabled scaler the scaled gradients may overflow to inf/nan.         *)
Backward ==
    /\ pc = "backward"
    /\ \E overflow \in IF args.fp16 /\ scaler.enabled THEN BOOLEAN ELSE {FALSE} :
          grad' = [set |-> TRUE, val |-> data.px, inf |-> overflow]
    /\ steps' = Append(steps, "backward")
    /\ pc' = TrainStepNext("backward", args.fp16, FALSE)
    /\ UNCHANGED << args, loader_len, ret, epoch, batch_idx, data, modules,
                    scaler, lr_steps, output, loss, test_acc, report, hist,
                    calib_data, replay, first >>

(* scaler.step(optimizer), first half: unscale the gradients and look for  *)
(* inf/nan; optimizer.step() is skipped when some are found.               *)
Unscale ==
    /\ pc = "unscale"
    /\ scaler' = [scaler EXCEPT !.found_inf = scaler.enabled /\ grad.inf]
    /\ steps' = Append(steps, "unscale")
    /\ pc' = TrainStepNext("unscale", args.fp16, scaler.enabled /\ grad.inf)
    /\ UNCHANGED << args, loader_len, ret, epoch, batch_idx, data, modules,
                    grad, lr_steps, output, loss, test_acc, report, hist,
                    calib_data, replay, first >>

(* optimizer.step()                                                        *)
OptStep ==
    /\ pc = "opt_step"
    /\ modules' = [modules EXCEPT !.model.weight = @ - grad.val]
    /\ steps' = Append(steps, "optimizer_step")
    /\ pc' = TrainStepNext("opt_step", args.fp16, FALSE)
    /\ UNCHANGED << args, loader_len, ret, epoch, batch_idx, data, grad,
                    scaler, lr_steps, output, loss, test_acc, report, hist,
                    calib_data, replay, first >>

(* scaler.update(): halve the scale after an overflow.                     *)
Update ==
    /\ pc = "update"
    /\ scaler' = [scaler EXCEPT
                    !.scale_exp = IF scaler.found_inf THEN @ - 1 ELSE @,
                    !.found_inf = FALSE]
    /\ steps' = Append(steps, "update_scale")
    /\ pc' = TrainStepNext("update", args.fp16, FALSE)
    /\ UNCHANGED << args, loader_len, ret, epoch, batch_idx, data, modules,
                    grad, lr_steps, output, loss, test_acc, report, hist,
                    calib_data, replay, first >>

(* test(): model.eval(), test_loss = 0, correct = 0                        *)
Test ==
    /\ pc \in {"test_epoch", "test_final"}
    /\ ret' = pc
    /\ modules' = [modules EXCEPT ![TestTarget(pc)] = test_eval(@)]
    /\ test_acc' = NoAcc
    /\ batch_idx' = 0
    /\ hist' = Append(hist, "test")
    /\ pc' = "test_for"
    /\ UNCHANGED << args, loader_len, epoch, data, grad, scaler, lr_steps,
                    output, loss, report, steps, calib_data, replay, first >>

(* One iteration of test()'s loop on batch b, under torch.no_grad():       *)
(* forward, then accumulate the summed loss and the number of correct      *)
(* predictions.                                                            *)
TestBatchOn(b) ==
    /\ pc = "test_for"
    /\ batch_idx < loader_len.test
    /\ data' = b
    /\ output' = NetPTQ_forward(modules[TestTarget(ret)], from_dense(b))
    /\ modules' = [modules EXCEPT
                     ![TestTarget(ret)] = ForwardState(@, from_dense(b))]
    /\ test_acc' = [test_loss |-> test_acc.test_loss + b.n * nll_loss(output'),
                    correct |-> test_acc.correct + correct_count(output')]
    /\ batch_idx' = batch_idx + 1
    /\ UNCHANGED << args, loader_len, pc, ret, epoch, grad, scaler, lr_steps,
                    loss, report, hist, steps, calib_data, first >>

(* for data, target in test_loader *)
TestBatch ==
    /\ \E b \in Batch(args.test_batch_size) : TestBatchOn(b)
    /\ replay' = replay

(* test(): the loader is exhausted; print the averages (the sums, over the *)
(* fixed size of the dataset) and return to next_pc, dropping the locals.  *)
TestReportTo(next_pc) ==
    /\ pc = "test_for"
    /\ batch_idx = loader_len.test
    /\ report' = << test_acc.test_loss, test_acc.correct >>
    /\ data' = NoBatch
    /\ output' = NoOutput
    /\ test_acc' = NoAcc
    /\ hist' = Append(hist, "test_ret")
    /\ pc' = next_pc
    /\ UNCHANGED << args, loader_len, ret, epoch, batch_idx, modules, grad,
                    scaler, lr_steps, loss, steps, calib_data, replay >>

(* test() returns to main(). *)
TestReport ==
    /\ TestReportTo(MainNext(ret))
    /\ first' = first

(* scheduler.step()                                                        *)
SchedulerStep ==
    /\ pc = "sched"
    /\ lr_steps' = lr_steps + 1
    /\ report' = << >>
    /\ hist' = Append(hist, "sched")
    /\ pc' = MainNext("sched")
    /\ UNCHANGED << args, loader_len, ret, epoch, batch_idx, data, modules,
                    grad, scaler, output, loss, test_acc, steps, calib_data,
                    replay, first >>

(* model.eval() after the training loop                                    *)
MainEval ==
    /\ pc = "main_eval"
    /\ modules' = [modules EXCEPT !.model.training = FALSE]
    /\ hist' = Append(hist, "eval")
    /\ pc' = MainNext("main_eval")
    /\ UNCHANGED << args, loader_len, ret, epoch, batch_idx, data, grad,
                    scaler, lr_steps, output, loss, test_acc, report, steps,
                    calib_data, replay, first >>

(* prepared_model = qfx.prepare_fx(model, ...)                             *)
Prepare ==
    /\ pc = "prepare"
    /\ modules' = [modules EXCEPT !.prepared_model = prepare_fx(modules.model)]
    /\ hist' = Append(hist, "prepare")
    /\ pc' = MainNext("prepare")
    /\ UNCHANGED << args, loader_len, ret, epoch, batch_idx, data, grad,
                    scaler, lr_steps, output, loss, test_acc, report, steps,
                    calib_data, replay, first >>

(* calibrate(args, prepared_model, test_loader, qdevice): model.eval()     *)
Calibrate ==
    /\ pc = "calibrate"
    /\ modules' = [modules EXCEPT !.prepared_model = calibrate_eval(@)]
    /\ batch_idx' = 0
    /\ hist' = Append(hist, "calibrate")
    /\ pc' = "calibrate_for"
    /\ UNCHANGED << args, loader_len, ret, epoch, data, grad, scaler,
                    lr_steps, output, loss, test_acc, report, steps,
                    calib_data, replay, first >>

(* One iteration of calibrate()'s loop, under torch.no_grad(): a forward   *)
(* pass whose output is dropped.                                           *)
CalibrateBatch ==
    /\ pc = "calibrate_for"
    /\ batch_idx < loader_len.test
    /\ \E b \in Batch(args.test_batch_size) :
         /\ data' = b
         /\ output' = NetPTQ_forward(modules.prepared_model, from_dense(b))
         /\ modules' = [modules EXCEPT
                          !.prepared_model = ForwardState(@, from_dense(b))]
         /\ calib_data' = calib_data \cup {b.px}
    /\ batch_idx' = batch_idx + 1
    /\ UNCHANGED << args, loader_len, pc, ret, epoch, grad, scaler, lr_steps,
                    loss, test_acc, report, hist, steps, replay, first >>

(* calibrate() returns when the loader is exhausted.                       *)
CalibrateReturn ==
    /\ pc = "calibrate_for"
    /\ batch_idx = loader_len.test
    /\ data' = NoBatch
    /\ output' = NoOutput
    /\ hist' = Append(hist, "calibrate_ret")
    /\ pc' = MainNext("calibrate")
    /\ UNCHANGED << args, loader_len, ret, epoch, batch_idx, modules, grad,
                    scaler, lr_steps, loss, test_acc, report, steps,
                    calib_data, replay, first >>

(* converted_model = qfx.convert_to_reference_fx(prepared_model, ...)      *)
Convert ==
    /\ pc = "convert"
    /\ modules' = [modules EXCEPT
                     !.converted_model = convert_to_reference_fx(modules.prepared_model)]
    /\ hist' = Append(hist, "convert")
    /\ pc' = MainNext("convert")
    /\ UNCHANGED << args, loader_len, ret, epoch, batch_idx, data, grad,
                    scaler, lr_steps, output, loss, test_acc, report, steps,
                    calib_data, replay, first >>

Next ==
    \/ MainFor
    \/ Train
    \/ TrainFor
    \/ ZeroGrad
    \/ Forward
    \/ Loss
    \/ Scale
    \/ Backward
    \/ Unscale
    \/ OptStep
    \/ Update
    \/ Test
    \/ TestBatch
    \/ TestReport
    \/ SchedulerStep
    \/ MainEval
    \/ Prepare
    \/ Calibrate
    \/ CalibrateBatch
    \/ CalibrateReturn
    \/ Convert

(* A run of main(). *)
Spec == Init /\ [][Next]_vars

(***************************************************************************)
(* The functions on their own: calibrate-then-convert on any calibration   *)
(* data source, test() run twice on the same model and data, and a direct  *)
(* call of the network with either input form.  The model handed in is any *)
(* model training can have produced.                                       *)
(***************************************************************************)

TrainedWeights == {0, -1, -2}

TrainedRunning == { << >>, << 1 >>, << 2 >>, << 2, 1 >> }

TrainedModels ==
    { [NetPTQ EXCEPT !.training = t, !.weight = w, !.running = r] :
        t \in BOOLEAN, w \in TrainedWeights, r \in TrainedRunning }

(* State shared by the three drivers: nothing has run yet. *)
InitIdle ==
    /\ ret = "none"
    /\ epoch = 0
    /\ batch_idx = 0
    /\ grad = NoGrad
    /\ scaler = NoScaler
    /\ lr_steps = 0
    /\ output = NoOutput
    /\ loss = 0
    /\ test_acc = NoAcc
    /\ report = << >>
    /\ hist = << >>
    /\ steps = << >>
    /\ calib_data = {}
    /\ replay = << >>
    /\ first = << >>

(* calibrate(args, prepared_model, data_loader, device) followed by        *)
(* convert, on a prepared model in either mode and a data loader of any    *)
(* length, the empty one included.                                         *)
InitPTQ ==
    /\ args \in [epochs : {0}, fp16 : {FALSE}, use_cuda : {FALSE},
                  batch_size : {1}, test_batch_size : 1..MaxN]
    /\ loader_len \in [train : {1}, test : 0..MaxTestBatches]
    /\ pc = "calibrate"
    /\ data = NoBatch
    /\ \E m \in TrainedModels, t \in BOOLEAN :
         /\ ~m.training
         /\ modules = [model |-> m,
                       prepared_model |-> [prepare_fx(m) EXCEPT !.training = t],
                       converted_model |-> NoModel]
    /\ InitIdle

NextPTQ ==
    \/ Calibrate
    \/ CalibrateBatch
    \/ CalibrateReturn
    \/ Convert

SpecPTQ == InitPTQ /\ [][NextPTQ]_vars

(* test(args, model, device, test_loader) twice in a row, the second run   *)
(* over the batches the first one saw.                                     *)
InitRepeat ==
    /\ args \in [epochs : {0}, fp16 : {FALSE}, use_cuda : {FALSE},
                  batch_size : {1}, test_batch_size : 1..MaxN]
    /\ loader_len \in [train : {1}, test : 1..MaxTestBatches]
    /\ pc = "test_epoch"
    /\ data = NoBatch
    /\ \E m \in TrainedModels :
         modules = [model |-> m, prepared_model |-> NoModel,
                    converted_model |-> NoModel]
    /\ InitIdle

(* for data, target in test_loader: the first run records its batches, the *)
(* second is fed the same ones.                                            *)
RepeatBatch ==
    /\ batch_idx < loader_len.test
    /\ \E b \in IF first = << >> THEN Batch(args.test_batch_size)
                ELSE {replay[batch_idx + 1]} :
         TestBatchOn(b)
    /\ replay' = IF first = << >> THEN Append(replay, data') ELSE replay

(* test() returns: after the first run keep what it printed and the model  *)
(* it left, and call test() again.                                         *)
RepeatReport ==
    IF first = << >>
    THEN /\ TestReportTo("test_epoch")
         /\ first' = << report', modules.model >>
    ELSE /\ TestReportTo("repeat_done")
         /\ first' = first

NextRepeat ==
    \/ Test
    \/ RepeatBatch
    \/ RepeatReport

SpecRepeat == InitRepeat /\ [][NextRepeat]_vars

(* One call of the network, model(...), with a batch in either form. *)
InitForward ==
    /\ args \in [epochs : {0}, fp16 : {FALSE}, use_cuda : {FALSE},
                  batch_size : {1}, test_batch_size : 1..MaxN]
    /\ loader_len = [train |-> 1, test |-> 1]
    /\ pc = "call"
    /\ data \in Batch(args.test_batch_size)
    /\ \E m \in TrainedModels :
         modules = [model |-> m, prepared_model |-> NoModel,
                    converted_model |-> NoModel]
    /\ InitIdle

(* output = model(data): the dense batch itself.                           *)
CallDense ==
    /\ pc = "call"
    /\ output' = NetPTQ_forward(modules.model, dense(data))
    /\ modules' = [modules EXCEPT !.model = ForwardState(@, dense(data))]
    /\ pc' = "called_dense"
    /\ UNCHANGED << args, loader_len, ret, epoch, batch_idx, data, grad,
                    scaler, lr_steps, loss, test_acc, report, hist, steps,
                    calib_data, replay, first >>

(* output = model(data_sp.features, data_sp.indices, data_sp.batch_size)   *)
CallTriple ==
    /\ pc = "call"
    /\ output' = NetPTQ_forward(modules.model, from_dense(data))
    /\ modules' = [modules EXCEPT !.model = ForwardState(@, from_dense(data))]
    /\ pc' = "called_triple"
    /\ UNCHANGED << args, loader_len, ret, epoch, batch_idx, data, grad,
                    scaler, lr_steps, loss, test_acc, report, hist, steps,
                    calib_data, replay, first >>

NextForward ==
    \/ CallDense
    \/ CallTriple

SpecForward == InitForward /\ [][NextForward]_vars

(***************************************************************************)
(* Properties.                                                             *)
(***************************************************************************)

IsPrefix(s, t) == Len(s) <= Len(t) /\ SubSeq(t, 1, Len(s)) = s

Range(s) == { s[i] : i \in DOMAIN s }

RECURSIVE Repeat(_, _)
Repeat(s, k) == IF k = 0 THEN << >> ELSE s \o Repeat(s, k - 1)

EpochCalls == << "train", "train_ret", "test", "test_ret", "sched" >>

PipelineCalls ==
    << "eval", "prepare", "calibrate", "calibrate_ret", "convert", "test", "test_ret" >>

(* What a complete run of main() with E epochs calls, in order. *)
ExpectedHist(E) == Repeat(EpochCalls, E) \o PipelineCalls

ExpectedHists == [E \in 0..MaxEpochs |-> ExpectedHist(E)]

(* C1: in every run of main(), for any number of epochs >= 0, the calls    *)
(* happen in the order (train, test, scheduler step) per epoch, then       *)
(* model.eval(), prepare, calibrate, convert, test, each starting after    *)
(* the previous one returned; a finished run made each pipeline call       *)
(* exactly once; the network is in evaluation mode when prepare is         *)
(* invoked; and no training step runs once prepare has been called.        *)
C1_PipelineOnceAfterTraining ==
    /\ IsPrefix(hist, ExpectedHists[args.epochs])
    /\ (pc = "breakpoint" => hist = ExpectedHists[args.epochs])
    /\ (pc = "prepare" => ~modules.model.training)
    /\ ("prepare" \in Range(hist) =>
          pc \notin {"train", "train_for", "zero_grad", "forward", "loss", "scale",
                     "backward", "unscale", "opt_step", "update"})

C1_Witness ==
    /\ pc = "breakpoint"
    /\ args.epochs = 2
    /\ hist = ExpectedHist(2)

(* The steps of one training batch. *)
BatchSteps(fp16, skip) ==
    IF fp16
    THEN << "zero_gradients", "forward", "compute_loss", "scale_loss", "backward",
            "unscale" >>
         \o (IF skip THEN << >> ELSE << "optimizer_step" >>)
         \o << "update_scale" >>
    ELSE << "zero_gradients", "forward", "compute_loss", "backward",
            "optimizer_step" >>

(* C2: for every batch processed by train(), with and without fp16, the    *)
(* steps run in the order zero_gradients, forward, compute_loss, (fp16:    *)
(* scale_loss), backward, (fp16: unscale), optimizer_step, (fp16:          *)
(* update_scale), where the optimizer step is left out exactly when the    *)
(* fp16 gradients overflowed; so the optimizer steps at most once per      *)
(* batch, and once when not in fp16 mode or when the gradients are finite. *)
C2_TrainStepOrder ==
    /\ \E skip \in BOOLEAN : IsPrefix(steps, BatchSteps(args.fp16, skip))
    /\ (pc = "train_for" /\ steps # << >> =>
          steps = BatchSteps(args.fp16, args.fp16 /\ grad.inf))

C2_Witness ==
    /\ pc = "train_for"
    /\ steps = BatchSteps(TRUE, TRUE)

(* C3: calibrate() changes no parameter of the network: whatever the data  *)
(* source yields (nothing included) and whatever mode the model arrives    *)
(* in, the prepared model's weights and normalisation buffers stay those   *)
(* of the trained model it was prepared from.                              *)
C3_CalibrateKeepsParameters ==
    modules.prepared_model.kind = "prepared" =>
        /\ modules.prepared_model.weight = modules.model.weight
        /\ modules.prepared_model.running = modules.model.running

C3_Witness ==
    /\ pc = "convert"
    /\ batch_idx = 2
    /\ calib_data = {1, 2}

(* C4: calibrate-then-convert with zero calibration batches either raises  *)
(* UncalibratedObserverError or leaves the blocks in floating point:       *)
(* convert never produces a quantized block from an observer that saw no   *)
(* data.                                                                   *)
C4_ZeroBatchesRaiseOrStayFloat ==
    ("convert" \in Range(hist) /\ calib_data = {}) =>
        \/ pc = "UncalibratedObserverError"
        \/ /\ modules.converted_model.kind # "converted"
           /\ modules.converted_model.q = NoQParams

NumStages(stages, Is(_)) == Cardinality({ i \in DOMAIN stages : Is(stages[i]) })

IsSubM3x3(stage) == stage.mode = "subm" /\ stage.kernel_size = 3

IsStride2(stage) == stage.mode = "sparse" /\ stage.stride = 2

IsClassifierStride4(stage) ==
    stage.mode = "sparse" /\ stage.stride = 4 /\ stage.out_planes = 10 /\ ~stage.bn

(* How many stages of each kind NetPTQ is built from. *)
NetPTQ_stage_counts ==
    [stages     |-> Len(NetPTQ_net),
     subm3x3    |-> NumStages(NetPTQ_net, IsSubM3x3),
     stride2    |-> NumStages(NetPTQ_net, IsStride2),
     classifier |-> NumStages(NetPTQ_net, IsClassifierStride4)]

(* The extent of the input and of each stage's output. *)
NetPTQ_extents == Extents(NetPTQ_net, InputExtent)

OutputIsNx10 ==
    output.kind = "log_probs" => output.shape = << data.n, 10 >>

(* C6 as stated: six stages, 3 of them submanifold 3x3, two stride-2, one  *)
(* stride-4 classifier convolution; every output has shape [N, 10].        *)
C6_ThreeSubMTwoStride2 ==
    /\ NetPTQ_stage_counts =
         [stages |-> 6, subm3x3 |-> 3, stride2 |-> 2, classifier |-> 1]
    /\ OutputIsNx10

(* C6: NetPTQ has six stages, 2 of them submanifold 3x3, three stride-2    *)
(* (kernels 2, 2 and 3) and one stride-4 classifier convolution; fed a     *)
(* 28x28 single-channel batch of size N, every forward call returns an     *)
(* output of shape [N, 10].                                                *)
C6_TwoSubMThreeStride2 ==
    /\ NetPTQ_stage_counts =
         [stages |-> 6, subm3x3 |-> 2, stride2 |-> 3, classifier |-> 1]
    /\ Last(NetPTQ_extents) = 1
    /\ OutputIsNx10

C6_Witness ==
    /\ output.kind = "log_probs"
    /\ data.n = 2
    /\ output.shape = << 2, 10 >>

PaddingFollowsKernel ==
    \A i \in DOMAIN NetPTQ_net :
       NetPTQ_net[i].bn =>
          NetPTQ_net[i].padding = (NetPTQ_net[i].kernel_size - 1) \div 2

Net_stride2_extent == ConvOutputSize(28, Net_net[3])

Net_flattened_width == FlattenedShape(Net_net, InputExtent, 1)[2]

(* C7: every strided stage built in the source has padding                 *)
(* (kernel_size - 1) // 2 and output extent                                *)
(* floor((H + 2*padding - kernel_size)/stride) + 1: 28 with kernel 2,      *)
(* stride 2, padding 0 gives 14; the NetPTQ chain runs 28 -> 14 -> 7 -> 4  *)
(* (and 1 after the classifier); Net/NetV2 densify to 14*14*64 values per  *)
(* sample, the input width of fc1.                                         *)
C7_StridedExtents ==
    /\ PaddingFollowsKernel
    /\ Net_net[3].padding = 0
    /\ Net_stride2_extent = 14
    /\ NetPTQ_extents = << 28, 28, 28, 14, 7, 4, 1 >>
    /\ Net_flattened_width = Fc1InFeatures
    /\ Fc1InFeatures = 12544
    /\ (output.kind = "log_probs" =>
          \A i \in DOMAIN NetPTQ_net :
             LET st == NetPTQ_net[i]
                 H == output.extents[i]
             IN  st.mode = "sparse" =>
                   output.extents[i + 1] =
                     ((H + 2 * st.padding - st.kernel_size) \div st.stride) + 1)

C7_Witness ==
    /\ output.kind = "log_probs"
    /\ output.extents = << 28, 28, 28, 14, 7, 4, 1 >>

(* C8 as stated: for every batch in train(), the stage-owned state         *)
(* (weights and normalisation parameters, running statistics included)     *)
(* right after the forward call equals the state right before it.          *)
C8_ForwardLeavesStageState ==
    [][pc = "forward" =>
         /\ modules'.model.weight = modules.model.weight
         /\ modules'.model.running = modules.model.running]_vars

(* C8: during training the weights and the normalisation scale/shift are   *)
(* changed only by the optimizer step, never by a forward pass; the        *)
(* normalisation running statistics are changed only by the forward pass   *)
(* of a training batch, which absorbs that batch's statistic.              *)
C8_ForwardMovesOnlyRunningStats ==
    [][/\ (pc = "forward" =>
             /\ modules'.model.weight = modules.model.weight
             /\ modules'.model.running = Append(modules.model.running, data.px))
       /\ (modules'.model.weight # modules.model.weight => pc = "opt_step")
       /\ (modules'.model.running # modules.model.running => pc = "forward")]_vars

C8_Witness ==
    /\ pc = "loss"
    /\ modules.model.training
    /\ Len(modules.model.running) = 2
    /\ modules.model.weight # 0

(* What an observer holds after seeing exactly the intensities S. *)
ObservedRange(S) ==
    IF S = {}
    THEN NoObserver
    ELSE [seen |-> TRUE,
          min_val |-> CHOOSE x \in S : \A y \in S : x <= y,
          max_val |-> CHOOSE x \in S : \A y \in S : x >= y]

(* C9: the observers' statistics are at every moment those of the batches  *)
(* the calibration loader has yielded inside calibrate(), so nothing else  *)
(* changes them; the converted model's scale/zero_point are computed from  *)
(* those statistics alone; and every forward pass after convert goes       *)
(* through the converted model, not the prepared one.                      *)
C9_ObserversFedByCalibrateOnly ==
    /\ modules.prepared_model.obs = ObservedRange(calib_data)
    /\ (calib_data # {} => "calibrate" \in Range(hist))
    /\ (modules.converted_model.kind = "converted" =>
          modules.converted_model.q = calculate_qparams(ObservedRange(calib_data)))
    /\ ("convert" \in Range(hist) /\ output.kind = "log_probs" =>
          /\ output.q = modules.converted_model.q
          /\ output.q # NoQParams)

C9_Witness ==
    /\ pc = "breakpoint"
    /\ calib_data = {1, 2}
    /\ modules.converted_model.q = [scale_num |-> 2, scale_den |-> QMax, zero_point |-> 0]

(* C10: test() evaluates in evaluation mode: every output is computed from *)
(* the weights, the running buffers and the input alone, the model is not  *)
(* changed by a test() run, and a second run of test() on the same model   *)
(* and data prints the same loss and accuracy.                             *)
C10_RepeatedTestAgrees ==
    /\ (pc = "test_for" => ~modules.model.training)
    /\ (pc = "test_for" /\ output.kind = "log_probs" =>
          /\ output.norm = modules.model.running
          /\ output.weight = modules.model.weight)
    /\ (first # << >> => modules.model = first[2])
    /\ (pc = "repeat_done" => report = first[1])

C10_Witness ==
    /\ pc = "repeat_done"
    /\ Len(replay) = 2
    /\ report = first[1]
    /\ first[2].running # << >>

====
